---- MODULE Spec2Model ----
(***************************************************************************)
(* Model of rho (deverte/rho): the command line front end of the psi       *)
(* diagram package.  lib/options.js scans the argument vector,             *)
(* lib/objects.js loads and merges JSON files, lib/commands.js dispatches   *)
(* the commands and drives the Diagram collaborator.                       *)
(***************************************************************************)
EXTENDS Integers, Sequences, FiniteSets, TLC

VARIABLES
    args,       \* the argument vector (process.argv)
    keys,       \* the spellings handed to the options functions
    files,      \* the file system: path -> content
    pc,         \* position of the program
    ret,        \* the call made and the value it returned
    console,    \* the lines printed with console.log, oldest first
    dgm,        \* the Diagram object of the psi package, once constructed
    events      \* what the run has done so far, oldest first

vars == <<args, keys, files, pc, ret, console, dgm, events>>

-----------------------------------------------------------------------------
(* Bounds *)

MaxArgs == 6

MaxPaths == 3

MaxAsmArgs == 4

MaxCmdArgs == 5

-----------------------------------------------------------------------------
(* JavaScript values *)

\* the JavaScript value undefined where a string is expected
undefined == "<undefined>"

Range(s) == {s[i] : i \in DOMAIN s}

SeqsUpTo(S, n) == UNION {[1..k -> S] : k \in 0..n}

Max(S) == CHOOSE m \in S : \A n \in S : n <= m

Min(S) == CHOOSE m \in S : \A n \in S : m <= n

RECURSIVE SortedSeq(_)
SortedSeq(S) == IF S = {} THEN <<>> ELSE <<Min(S)>> \o SortedSeq(S \ {Min(S)})

\* R.nth: zero-based, a negative offset counts from the end, undefined outside
nth(offset, list) ==
    LET idx == IF offset < 0 THEN Len(list) + offset ELSE offset
    IN  IF idx >= 0 /\ idx < Len(list) THEN list[idx + 1] ELSE undefined

\* R.lastIndexOf: zero-based index of the last occurrence, -1 if none
lastIndexOf(key, list) ==
    LET occ == {i \in 1..Len(list) : list[i] = key}
    IN  IF occ = {} THEN -1 ELSE Max(occ) - 1

\* R.flatten on a list of lists
RECURSIVE flatten(_)
flatten(ll) == IF ll = <<>> THEN <<>> ELSE Head(ll) \o flatten(Tail(ll))

\* _.compact: drops the falsy entries
compact(list) == SelectSeq(list, LAMBDA v : v # undefined /\ v # "")

-----------------------------------------------------------------------------
(* lib/options.js *)

isOption(ks, as) == ~ (Range(ks) \cap Range(as) = {})

parseOptionFirst(ks, as) ==
    IF isOption(ks, as)
    THEN nth(Min({lastIndexOf(ks[i], as) + 1 : i \in DOMAIN ks} \ {0}), as)
    ELSE undefined

parseOptionNoInc(ks, as) ==
    IF isOption(ks, as)
    THEN nth(Max({lastIndexOf(ks[i], as) : i \in DOMAIN ks}), as)
    ELSE undefined

parseOption(ks, as) ==
    IF isOption(ks, as)
    THEN nth(Max({lastIndexOf(ks[i], as) + 1 : i \in DOMAIN ks}), as)
    ELSE undefined

allIndicesOf(key, as) == SortedSeq({i - 1 : i \in {j \in 1..Len(as) : as[j] = key}})

parseOptionsMultiple(ks, as) ==
    LET perKey  == [i \in DOMAIN ks |-> allIndicesOf(ks[i], as)]
        indices == flatten(perKey)
        values  == [i \in DOMAIN indices |-> nth(indices[i] + 1, as)]
    IN  compact(values)

-----------------------------------------------------------------------------
(* JSON documents and the file system *)

\* the JavaScript value undefined where an object is expected
undefinedObj == [kind |-> "undefined"]

Str(s) == [kind |-> "string", str |-> s]

Arr(a) == [kind |-> "array", arr |-> a]

\* a JSON mapping: m is a function from its own keys to JSON values
Obj(m) == [kind |-> "object", map |-> m]

isNil(v) == v = undefinedObj

\* Ramda's _isObject: true of plain objects only, not of arrays or scalars
isObject(v) == v.kind = "object"

ownKeys(v) == IF v.kind = "object" THEN DOMAIN v.map ELSE {}

\* content of a file: no such file, a file that does not read or parse as
\* JSON, a file holding the JSON document doc, or a written SVG text
Missing == [kind |-> "missing"]

Malformed == [kind |-> "malformed"]

Json(d) == [kind |-> "json", doc |-> d]

SvgText == [kind |-> "svg"]

contentOf(path) == IF path \in DOMAIN files THEN files[path] ELSE Missing

existsSync(path) == path # undefined /\ contentOf(path).kind # "missing"

\* fs.readFileSync, JSON.minify, JSON.parse: the document, or the error thrown
readJSON(path) ==
    IF path = undefined THEN [ok |-> FALSE, err |-> "TypeError"]
    ELSE IF contentOf(path).kind = "missing" THEN [ok |-> FALSE, err |-> "Error"]
    ELSE IF contentOf(path).kind # "json" THEN [ok |-> FALSE, err |-> "SyntaxError"]
    ELSE [ok |-> TRUE, doc |-> contentOf(path).doc]

\* the line `${err.name}: ${err.message}. <File: '${objPath}'>`
Diagnostic(err, path) == [line |-> "file error", name |-> err, file |-> path]

\* a returned value val together with the lines log printed on the way
Returned(v, l) == [val |-> v, log |-> l]

-----------------------------------------------------------------------------
(* lib/objects.js *)

RECURSIVE mergeDeepRight(_, _)
mergeDeepRight(l, r) ==
    Obj([k \in ownKeys(l) \cup ownKeys(r) |->
            IF k \notin ownKeys(r) THEN l.map[k]
            ELSE IF k \notin ownKeys(l) THEN r.map[k]
            ELSE IF isObject(l.map[k]) /\ isObject(r.map[k])
                 THEN mergeDeepRight(l.map[k], r.map[k])
                 ELSE r.map[k]])

\* R.mergeDeepLeft: own keys of both sides, both plain objects recurse,
\* otherwise the left value is kept
RECURSIVE mergeDeepLeft(_, _)
mergeDeepLeft(l, r) ==
    Obj([k \in ownKeys(l) \cup ownKeys(r) |->
            IF k \notin ownKeys(r) THEN l.map[k]
            ELSE IF k \notin ownKeys(l) THEN r.map[k]
            ELSE IF isObject(l.map[k]) /\ isObject(r.map[k])
                 THEN mergeDeepLeft(l.map[k], r.map[k])
                 ELSE l.map[k]])

parseObjectExistingOnly(objPath) ==
    LET f == readJSON(objPath)
    IN  IF f.ok THEN Returned(f.doc, <<>>)
        ELSE IF existsSync(objPath)
        THEN Returned(undefinedObj, <<Diagnostic(f.err, objPath)>>)
        ELSE Returned(undefinedObj, <<>>)

\* parseObject: the document, or undefined after the catcher has printed the
\* error, whatever the error is
parseObject(objPath) ==
    LET f == readJSON(objPath)
    IN  IF f.ok THEN Returned(f.doc, <<>>)
        ELSE Returned(undefinedObj, <<Diagnostic(f.err, objPath)>>)

getDefaultObject(defaultValue) ==
    IF existsSync(defaultValue) THEN parseObject(defaultValue)
    ELSE Returned(undefinedObj, <<>>)

getObjectOverDefaultNoFallback(defaultValue, ks, as) ==
    LET objPath == parseOption(ks, as)
    IN  IF objPath # undefined THEN parseObject(objPath)
        ELSE getDefaultObject(defaultValue)

getObjectOverDefault(defaultValue, ks, as) ==
    LET objPath == parseOption(ks, as)
    IN  IF objPath # undefined
        THEN LET parsed == parseObject(objPath)
             IN  IF isNil(parsed.val)
                 THEN LET dflt == getDefaultObject(defaultValue)
                      IN  Returned(dflt.val, parsed.log \o dflt.log)
                 ELSE parsed
        ELSE getDefaultObject(defaultValue)

getObject(ks, as) == parseObject(parseOption(ks, as))

parseObjectsStepReset(obj, objPath) ==
    LET f == readJSON(objPath)
    IN  IF f.ok THEN Returned(mergeDeepLeft(obj, f.doc), <<>>)
        ELSE Returned(undefinedObj, <<Diagnostic(f.err, objPath)>>)

\* the reducer of parseObjects: one path folded into the accumulator obj
parseObjectsStep(obj, objPath) ==
    LET f == readJSON(objPath)
    IN  IF f.ok THEN Returned(mergeDeepLeft(obj, f.doc), <<>>)
        ELSE Returned(obj, <<Diagnostic(f.err, objPath)>>)

RECURSIVE parseObjectsReduce(_, _)
parseObjectsReduce(acc, objPaths) ==
    IF objPaths = <<>> THEN acc
    ELSE LET s == parseObjectsStep(acc.val, Head(objPaths))
         IN  parseObjectsReduce(Returned(s.val, acc.log \o s.log), Tail(objPaths))

parseObjects(objPaths) ==
    IF objPaths # <<>> THEN parseObjectsReduce(Returned(undefinedObj, <<>>), objPaths)
    ELSE Returned(undefinedObj, <<>>)

getDefaultObjects(defaultValues) == parseObjects(SelectSeq(defaultValues, existsSync))

getObjectsDefaultsFirst(defaultValues, ks, as) ==
    LET parsedObjects == parseObjects(parseOptionsMultiple(ks, as))
        dflt          == getDefaultObjects(defaultValues)
    IN  IF ~ isNil(parsedObjects.val) /\ ~ isNil(dflt.val)
        THEN Returned(mergeDeepLeft(dflt.val, parsedObjects.val), parsedObjects.log \o dflt.log)
        ELSE IF ~ isNil(parsedObjects.val)
        THEN Returned(parsedObjects.val, parsedObjects.log \o dflt.log)
        ELSE Returned(dflt.val, parsedObjects.log \o dflt.log)

getObjects(defaultValues, ks, as) ==
    LET parsedObjects == parseObjects(parseOptionsMultiple(ks, as))
        dflt          == getDefaultObjects(defaultValues)
    IN  IF ~ isNil(parsedObjects.val)
        THEN IF ~ isNil(dflt.val)
             THEN Returned(mergeDeepLeft(parsedObjects.val, dflt.val),
                           parsedObjects.log \o dflt.log)
             ELSE Returned(parsedObjects.val, parsedObjects.log \o dflt.log)
        ELSE Returned(dflt.val, parsedObjects.log \o dflt.log)

-----------------------------------------------------------------------------
(* lib/commands.js: the default files *)

\* path.join(path.dirname(process.execPath), fileName)
pretendInsideExecDir(fileName) ==
    CASE fileName = "style.json"           -> "<execdir>/style.json"
      [] fileName = "mathjax_config.json"  -> "<execdir>/mathjax_config.json"
      [] fileName = "mathjax_typeset.json" -> "<execdir>/mathjax_typeset.json"

checkIfExists(filePath) == IF existsSync(filePath) THEN filePath ELSE undefined

setDefault(fileName) == checkIfExists(pretendInsideExecDir(fileName))

StyleKeys == <<"-s", "--style">>

ConfigKeys == <<"-c", "--config">>

TypesetKeys == <<"-t", "--typeset">>

DiagramKeys == <<"-d", "--diagram">>

-----------------------------------------------------------------------------
(* lib/commands.js: the commands *)

HelpKeys == <<"-h", "--help">>

VersionKeys == <<"-v", "--version">>

OutputKeys == <<"-o", "--output">>

WriteKeys == <<"-w", "--write">>

HelpText == [line |-> "help"]

VersionText == [line |-> "version"]

SvgLine == [line |-> "svg"]

NotCreated(err) == [line |-> "Diagram was not created", name |-> err]

NotGenerated(err) == [line |-> "Diagram was not generated", name |-> err]

NoDiagram == [made |-> FALSE]

\* new Diagram(diagramObject, { style, mjConfig, mjTypeset })
NewDiagram(d, st, cfg, ts) ==
    [made |-> TRUE, diagramObject |-> d, style |-> st, mjConfig |-> cfg, mjTypeset |-> ts]

Command(name) == [ev |-> "command", name |-> name]

Load(slot) == [ev |-> "load", slot |-> slot]

Event(name) == [ev |-> name]

createDiagramUnguarded(as, ctorOk) ==
    LET d   == getObject(DiagramKeys, as)
        st  == getObjects(<<setDefault("style.json")>>, StyleKeys, as)
        cfg == getObjectOverDefault(setDefault("mathjax_config.json"), ConfigKeys, as)
        ts  == getObjectOverDefault(setDefault("mathjax_typeset.json"), TypesetKeys, as)
        loads == <<Load("diagram"), Load("style"), Load("mjConfig"), Load("mjTypeset")>>
        log == d.log \o st.log \o cfg.log \o ts.log
    IN  IF ctorOk
        THEN [val |-> NewDiagram(d.val, st.val, cfg.val, ts.val), log |-> log,
              events |-> loads \o <<Event("new Diagram")>>]
        ELSE [val |-> NoDiagram, log |-> log \o <<NotCreated("Error")>>,
              events |-> loads \o <<Event("new Diagram"), Event("threw")>>]

createDiagramLazyOptions(as, ctorOk) ==
    LET d   == getObject(DiagramKeys, as)
        st  == getObjects(<<setDefault("style.json")>>, StyleKeys, as)
        cfg == getObjectOverDefault(setDefault("mathjax_config.json"), ConfigKeys, as)
        ts  == getObjectOverDefault(setDefault("mathjax_typeset.json"), TypesetKeys, as)
        late == <<Load("style"), Load("mjConfig"), Load("mjTypeset")>>
        log == d.log \o st.log \o cfg.log \o ts.log
    IN  IF isNil(d.val)
        THEN [val |-> NoDiagram, log |-> d.log, events |-> <<Load("diagram")>>]
        ELSE IF ctorOk
        THEN [val |-> NewDiagram(d.val, st.val, cfg.val, ts.val), log |-> log,
              events |-> <<Load("diagram"), Event("new Diagram")>> \o late]
        ELSE [val |-> NoDiagram, log |-> d.log \o <<NotCreated("Error")>>,
              events |-> <<Load("diagram"), Event("new Diagram"), Event("threw")>>]

\* createDiagram: the diagram document first; when it is there, the three
\* option documents and the constructor, which throws iff ~ ctorOk
createDiagram(as, ctorOk) ==
    LET d   == getObject(DiagramKeys, as)
        st  == getObjects(<<setDefault("style.json")>>, StyleKeys, as)
        cfg == getObjectOverDefault(setDefault("mathjax_config.json"), ConfigKeys, as)
        ts  == getObjectOverDefault(setDefault("mathjax_typeset.json"), TypesetKeys, as)
        loads == <<Load("diagram"), Load("style"), Load("mjConfig"), Load("mjTypeset")>>
        log == d.log \o st.log \o cfg.log \o ts.log
    IN  IF isNil(d.val)
        THEN [val |-> NoDiagram, log |-> d.log, events |-> <<Load("diagram")>>]
        ELSE IF ctorOk
        THEN [val |-> NewDiagram(d.val, st.val, cfg.val, ts.val), log |-> log,
              events |-> loads \o <<Event("new Diagram")>>]
        ELSE [val |-> NoDiagram, log |-> log \o <<NotCreated("Error")>>,
              events |-> loads \o <<Event("new Diagram"), Event("threw")>>]

\* the R.cond of the then-callback of diagram: the first branch that matches
thenBranch(as) ==
    IF isOption(OutputKeys, as) THEN "output"
    ELSE IF isOption(WriteKeys, as) THEN "print"
    ELSE "none"

applyCommandsVersionFirst(as) ==
    IF isOption(VersionKeys, as) THEN "version"
    ELSE IF isOption(HelpKeys, as) THEN "help"
    ELSE IF isOption(DiagramKeys, as) THEN "diagram"
    ELSE "default"

\* the R.cond of applyCommands: the first branch that matches
applyCommands(as) ==
    IF isOption(HelpKeys, as) THEN "help"
    ELSE IF isOption(VersionKeys, as) THEN "version"
    ELSE IF isOption(DiagramKeys, as) THEN "diagram"
    ELSE "default"

-----------------------------------------------------------------------------
(* The options functions applied to every bounded argument vector *)

OptTokens == {"-s", "--style", "st1.json", "st2.json", "st3.json"}

OptKeys == {<<"-s", "--style">>, <<"--style", "-s">>, <<"-s">>}

NoCall == [fn |-> "none"]

InitOpt ==
    /\ args \in SeqsUpTo(OptTokens, MaxArgs)
    /\ keys \in OptKeys
    /\ files = <<>>
    /\ pc = "start"
    /\ ret = NoCall
    /\ console = <<>>
    /\ dgm = NoDiagram
    /\ events = <<>>

CallIsOption ==
    /\ pc = "start"
    /\ ret' = [fn |-> "isOption", val |-> isOption(keys, args)]
    /\ pc' = "done"
    /\ UNCHANGED <<args, keys, files, console, dgm, events>>

CallParseOption ==
    /\ pc = "start"
    /\ ret' = [fn |-> "parseOption", val |-> parseOption(keys, args)]
    /\ pc' = "done"
    /\ UNCHANGED <<args, keys, files, console, dgm, events>>

CallParseOptionsMultiple ==
    /\ pc = "start"
    /\ ret' = [fn |-> "parseOptionsMultiple", val |-> parseOptionsMultiple(keys, args)]
    /\ pc' = "done"
    /\ UNCHANGED <<args, keys, files, console, dgm, events>>

NextOpt == CallIsOption \/ CallParseOption \/ CallParseOptionsMultiple

SpecOpt == InitOpt /\ [][NextOpt]_vars

-----------------------------------------------------------------------------
(* Properties of the options functions *)

\* positions (one-based) of the mentions of any spelling of ks in as
Mentions(ks, as) == {i \in 1..Len(as) : as[i] \in Range(ks)}

\* C1: parseOption returns the token after the last mention of any spelling,
\* and undefined when there is no mention or the last mention ends the vector.
C1_LastMentionWins ==
    (pc = "done" /\ ret.fn = "parseOption") =>
        LET M == Mentions(keys, args)
        IN  IF M = {} \/ Max(M) = Len(args)
            THEN ret.val = undefined
            ELSE ret.val = args[Max(M) + 1]

\* a later mention under another spelling overrides an earlier mention
C1_Witness ==
    /\ pc = "done" /\ ret.fn = "parseOption"
    /\ \E i, j \in Mentions(keys, args) :
          /\ i < j /\ args[i] # args[j] /\ j = Max(Mentions(keys, args))
          /\ j < Len(args) /\ args[i + 1] # args[j + 1]
          /\ args[i + 1] \notin Range(keys)
          /\ ret.val = args[j + 1]

\* C2: parseOptionsMultiple returns the tokens that follow the mentions in the
\* order in which the mentions appear in the argument vector.
C2_CommandLineOrder ==
    (pc = "done" /\ ret.fn = "parseOptionsMultiple") =>
        LET M    == SortedSeq({i \in Mentions(keys, args) : i < Len(args)})
        IN  ret.val = [n \in DOMAIN M |-> args[M[n] + 1]]

\* C10 as stated: the result is defined iff some mention has a following token.
C10_DefinedIffSomeMentionHasValue ==
    (pc = "done" /\ ret.fn = "parseOption") =>
        ((ret.val # undefined) <=> (\E i \in Mentions(keys, args) : i < Len(args)))

\* C10 amended: the result is defined iff the last mention has a following token.
C10_DefinedIffLastMentionHasValue ==
    (pc = "done" /\ ret.fn = "parseOption") =>
        ((ret.val # undefined) <=>
            (\E i \in Mentions(keys, args) :
                /\ i < Len(args)
                /\ \A j \in Mentions(keys, args) : j <= i))

\* an earlier mention has a value, the last one has none: the result is undefined
C10_Witness ==
    /\ pc = "done" /\ ret.fn = "parseOption"
    /\ \E i \in Mentions(keys, args) : i < Len(args) /\ args[i + 1] \notin Range(keys)
    /\ Len(args) \in Mentions(keys, args)
    /\ ret.val = undefined

-----------------------------------------------------------------------------
(* parseObjects applied to every bounded list of paths over every bounded   *)
(* file system                                                             *)

MergePaths == {"st1.json", "st2.json", "st3.json"}

NestedMaps ==
    {m \in UNION {[D -> {Str("d1"), Str("d2")}] : D \in SUBSET {"x", "y"}} :
        "y" \in DOMAIN m => m["y"] = Str("d2")}

\* values of the key "c": a scalar, an array, or a nested mapping
CValues == {Str("d1"), Arr(<<"d1", "d2">>)} \cup {Obj(m) : m \in NestedMaps}

\* the documents { "a": "1", "c": v } with either key optional
MergeDocs ==
    {Obj(m) : m \in {n \in UNION {[D -> {Str("1")} \cup CValues] : D \in SUBSET {"a", "c"}} :
                        /\ "a" \in DOMAIN n => n["a"] = Str("1")
                        /\ "c" \in DOMAIN n => n["c"] \in CValues}}

MergeContents == {Missing, Malformed} \cup {Json(d) : d \in MergeDocs}

InitMerge ==
    /\ args = <<>>
    /\ keys = <<>>
    /\ files \in [MergePaths -> MergeContents]
    /\ pc = "start"
    /\ ret = NoCall
    /\ console = <<>>
    /\ dgm = NoDiagram
    /\ events = <<>>

CallParseObjects ==
    /\ pc = "start"
    /\ \E objPaths \in SeqsUpTo(MergePaths, MaxPaths) :
          LET r == parseObjects(objPaths)
          IN  /\ ret' = [fn |-> "parseObjects", objPaths |-> objPaths, val |-> r.val]
              /\ console' = console \o r.log
    /\ pc' = "done"
    /\ UNCHANGED <<args, keys, files, dgm, events>>

NextMerge == CallParseObjects

SpecMerge == InitMerge /\ [][NextMerge]_vars

-----------------------------------------------------------------------------
(* Properties of parseObjects *)

Loads(path) == contentOf(path).kind = "json"

\* the documents of the paths that load, in the listed order
LoadedDocs(objPaths) ==
    LET loaded == SelectSeq(objPaths, Loads)
    IN  [i \in DOMAIN loaded |-> contentOf(loaded[i]).doc]

\* the values of key j in those of the mappings ms that have it, in order
ValuesAt(ms, j) ==
    LET having == SelectSeq(ms, LAMBDA m : j \in ownKeys(m))
    IN  [i \in DOMAIN having |-> having[i].map[j]]

KeysOfAll(ms) == UNION {ownKeys(ms[i]) : i \in DOMAIN ms}

\* the value C3 states for a key whose values, in listed order, are vals:
\* all mappings merge, otherwise the earliest value is kept whole
RECURSIVE StatedValue(_)
StatedValue(vals) ==
    IF \A i \in DOMAIN vals : isObject(vals[i])
    THEN Obj([j \in KeysOfAll(vals) |-> StatedValue(ValuesAt(vals, j))])
    ELSE vals[1]

\* the value the fold yields: an earliest value that is no mapping is kept
\* whole; an earliest mapping merges with every later mapping, and the later
\* values that are no mappings are passed over
RECURSIVE FoldedValue(_)
FoldedValue(vals) ==
    IF ~ isObject(vals[1]) THEN vals[1]
    ELSE LET ms == SelectSeq(vals, isObject)
         IN  Obj([j \in KeysOfAll(ms) |-> FoldedValue(ValuesAt(ms, j))])

ParseObjectsDone == pc = "done" /\ ret.fn = "parseObjects"

AllLoad(objPaths) == objPaths # <<>> /\ \A i \in DOMAIN objPaths : Loads(objPaths[i])

\* C3 as stated: when every listed file loads, the result has the union of
\* the keys, and a key's value is the recursive merge when all its values are
\* mappings and the earliest document's value otherwise.
C3_EarliestKeptUnlessAllMappings ==
    (ParseObjectsDone /\ AllLoad(ret.objPaths)) =>
        ret.val = StatedValue(LoadedDocs(ret.objPaths))

\* C3 amended: when every listed file loads, the result has the union of the
\* keys; a key whose earliest value is no mapping keeps that value whole, and a
\* key whose earliest value is a mapping gets the recursive merge of all its
\* mapping values, later values that are no mappings being ignored.
C3_LeftFoldOfDeepMerge ==
    (ParseObjectsDone /\ AllLoad(ret.objPaths)) =>
        /\ ownKeys(ret.val) = KeysOfAll(LoadedDocs(ret.objPaths))
        /\ ret.val = FoldedValue(LoadedDocs(ret.objPaths))

\* three documents share a key: two mappings that collide on a nested key and
\* differ on another, and a value that is no mapping
C3_Witness ==
    /\ ParseObjectsDone /\ AllLoad(ret.objPaths) /\ Len(ret.objPaths) = 3
    /\ LET ds == LoadedDocs(ret.objPaths)
       IN  /\ \A i \in 1..3 : "c" \in ownKeys(ds[i])
           /\ isObject(ds[1].map["c"]) /\ isObject(ds[2].map["c"])
           /\ ~ isObject(ds[3].map["c"])
           /\ ds[1].map["c"].map = [j \in {"x"} |-> Str("d1")]
           /\ ds[2].map["c"].map = [j \in {"x", "y"} |-> Str("d2")]
           /\ "a" \in ownKeys(ds[3]) /\ "a" \notin ownKeys(ds[1])
           /\ ret.val.map["c"].map = [j \in {"x", "y"} |->
                                        IF j = "x" THEN Str("d1") ELSE Str("d2")]
           /\ ret.val.map["a"] = Str("1")

\* C4: the result is the merge of exactly the paths that load, in the listed
\* order, every failing path printing one line and changing nothing; it is
\* undefined iff the list is empty or no path loads.
C4_FailedPathsAreSkipped ==
    ParseObjectsDone =>
        LET ds == LoadedDocs(ret.objPaths)
        IN  /\ isNil(ret.val) <=>
                  (ret.objPaths = <<>> \/ \A i \in DOMAIN ret.objPaths : ~ Loads(ret.objPaths[i]))
            /\ ds # <<>> => ret.val = FoldedValue(ds)
            /\ Len(console) = Len(ret.objPaths) - Len(ds)

\* a failing path between two loading ones: both documents are in the result
C4_Witness ==
    /\ ParseObjectsDone /\ Len(ret.objPaths) = 3
    /\ Loads(ret.objPaths[1]) /\ ~ Loads(ret.objPaths[2]) /\ Loads(ret.objPaths[3])
    /\ ret.val # contentOf(ret.objPaths[1]).doc
    /\ ret.val # contentOf(ret.objPaths[3]).doc
    /\ ~ isNil(ret.val)
    /\ Len(console) = 1

-----------------------------------------------------------------------------
(* The slots of createDiagram resolved over every bounded argument vector   *)
(* and file system                                                         *)

AsmPaths == {"p1.json", "p2.json"}

DocA == Obj([k \in {"a", "c"} |-> IF k = "a" THEN Str("1") ELSE Obj([j \in {"x"} |-> Str("d1")])])

DocB == Obj([k \in {"c"} |-> Obj([j \in {"x", "y"} |-> Str("d2")])])

DocC == Obj([k \in {"b", "c"} |-> IF k = "b" THEN Str("2") ELSE Str("d1")])

AsmContents == {Missing, Malformed, Json(DocA), Json(DocB), Json(DocC)}

\* the slots: the spellings and the name of the default file, if any
Slots ==
    { [keys |-> StyleKeys,   dflt |-> {"style.json"}],
      [keys |-> ConfigKeys,  dflt |-> {"mathjax_config.json"}],
      [keys |-> TypesetKeys, dflt |-> {"mathjax_typeset.json"}],
      [keys |-> DiagramKeys, dflt |-> {}] }

InitAsm ==
    /\ \E slot \in Slots :
          /\ keys = slot.keys
          /\ args \in SeqsUpTo({slot.keys[1]} \cup AsmPaths, MaxAsmArgs)
          /\ files \in [AsmPaths \cup {pretendInsideExecDir(n) : n \in slot.dflt} -> AsmContents]
    /\ pc = "start"
    /\ ret = NoCall
    /\ console = <<>>
    /\ dgm = NoDiagram
    /\ events = <<>>

CallGetObjects ==
    /\ pc = "start" /\ keys = StyleKeys
    /\ LET r == getObjects(<<setDefault("style.json")>>, keys, args)
       IN  /\ ret' = [fn |-> "getObjects", val |-> r.val]
           /\ console' = console \o r.log
    /\ pc' = "done"
    /\ UNCHANGED <<args, keys, files, dgm, events>>

CallGetObjectOverDefault ==
    /\ pc = "start" /\ keys \in {ConfigKeys, TypesetKeys}
    /\ LET name == IF keys = ConfigKeys THEN "mathjax_config.json" ELSE "mathjax_typeset.json"
           r    == getObjectOverDefault(setDefault(name), keys, args)
       IN  /\ ret' = [fn |-> "getObjectOverDefault", dflt |-> pretendInsideExecDir(name),
                      val |-> r.val]
           /\ console' = console \o r.log
    /\ pc' = "done"
    /\ UNCHANGED <<args, keys, files, dgm, events>>

CallGetObject ==
    /\ pc = "start" /\ keys = DiagramKeys
    /\ LET r == getObject(keys, args)
       IN  /\ ret' = [fn |-> "getObject", val |-> r.val]
           /\ console' = console \o r.log
    /\ pc' = "done"
    /\ UNCHANGED <<args, keys, files, dgm, events>>

NextAsm == CallGetObjects \/ CallGetObjectOverDefault \/ CallGetObject

SpecAsm == InitAsm /\ [][NextAsm]_vars

-----------------------------------------------------------------------------
(* Properties of the slots *)

\* the token after the last mention of an option, if there is one
LastValue(ks, as) ==
    LET M == Mentions(ks, as)
    IN  IF M = {} \/ Max(M) = Len(as) THEN undefined ELSE as[Max(M) + 1]

ExplicitPath == LastValue(keys, args)

DocOf(path) == IF Loads(path) THEN contentOf(path).doc ELSE undefinedObj

\* C5: getObjectOverDefault returns the explicit file's document when a path
\* is resolved and its file loads, the default file's document when no path is
\* resolved or the explicit file fails, and undefined only when the default
\* file is missing or fails to load.
C5_ExplicitOverDefault ==
    (pc = "done" /\ ret.fn = "getObjectOverDefault") =>
        /\ (ExplicitPath # undefined /\ Loads(ExplicitPath)) =>
                ret.val = contentOf(ExplicitPath).doc
        /\ (ExplicitPath = undefined \/ ~ Loads(ExplicitPath)) =>
                ret.val = DocOf(ret.dflt)
        /\ isNil(ret.val) => ~ Loads(ret.dflt)

\* the explicit file exists and fails to load, the default file is returned
C5_Witness ==
    /\ pc = "done" /\ ret.fn = "getObjectOverDefault"
    /\ ExplicitPath # undefined /\ contentOf(ExplicitPath) = Malformed
    /\ Loads(ret.dflt) /\ ret.val = contentOf(ret.dflt).doc
    /\ Len(console) = 1

\* the explicit style paths, in the order parseOptionsMultiple yields them
ExplicitStyles == parseObjects(parseOptionsMultiple(keys, args)).val

DefaultStyles == DocOf(pretendInsideExecDir("style.json"))

\* C6: getObjects returns A merged over B, A's values winning, when both are
\* present, A alone when B is undefined, B when A is undefined, and undefined
\* iff both are undefined.
C6_ExplicitStylesOverDefault ==
    (pc = "done" /\ ret.fn = "getObjects") =>
        LET A == ExplicitStyles
            B == DefaultStyles
        IN  /\ (~ isNil(A) /\ ~ isNil(B)) => ret.val = FoldedValue(<<A, B>>)
            /\ (~ isNil(A) /\ isNil(B)) => ret.val = A
            /\ isNil(A) => ret.val = B
            /\ isNil(ret.val) <=> (isNil(A) /\ isNil(B))

\* A is merged from two style files; A and B collide on a nested key with
\* different values and each has a key the other lacks: the result has A's
\* value and the keys of both
C6_Witness ==
    /\ pc = "done" /\ ret.fn = "getObjects"
    /\ args = <<"-s", "p1.json", "-s", "p2.json">>
    /\ contentOf("p1.json") = Json(DocA) /\ contentOf("p2.json") = Json(DocC)
    /\ DefaultStyles = DocB
    /\ DOMAIN ret.val.map = {"a", "b", "c"}
    /\ ret.val.map["c"].map["x"] = Str("d1")
    /\ ret.val.map["c"].map["y"] = Str("d2")
    /\ ret.val.map["a"] = Str("1")

-----------------------------------------------------------------------------
(* A run of the program: main calls applyCommands(process.argv) *)

CmdTokens == {"-h", "-v", "-d", "-o", "-w", "d.json", "out.svg"}

DocDiagram == Obj([k \in {"gates"} |-> Arr(<<"H">>)])

CmdFiles ==
    {f \in [{"d.json", "<execdir>/style.json", "<execdir>/mathjax_config.json",
             "<execdir>/mathjax_typeset.json"} -> {Missing, Malformed, Json(DocDiagram), Json(DocB)}] :
        /\ f["d.json"] \in {Missing, Malformed, Json(DocDiagram)}
        /\ f["<execdir>/style.json"] \in {Missing, Json(DocB)}
        /\ f["<execdir>/mathjax_config.json"] = Missing
        /\ f["<execdir>/mathjax_typeset.json"] = Missing}

InitCmd ==
    /\ args \in SeqsUpTo(CmdTokens, MaxCmdArgs)
    /\ keys = <<>>
    /\ files \in CmdFiles
    /\ pc = "start"
    /\ ret = NoCall
    /\ console = <<>>
    /\ dgm = NoDiagram
    /\ events = <<>>

Help ==
    /\ pc = "start" /\ applyCommands(args) = "help"
    /\ console' = console \o <<HelpText>>
    /\ events' = events \o <<Command("help")>>
    /\ pc' = "done"
    /\ UNCHANGED <<args, keys, files, ret, dgm>>

Version ==
    /\ pc = "start" /\ applyCommands(args) = "version"
    /\ console' = console \o <<VersionText>>
    /\ events' = events \o <<Command("version")>>
    /\ pc' = "done"
    /\ UNCHANGED <<args, keys, files, ret, dgm>>

\* diagram(args): createDiagram, then generate() on a Diagram, whose promise
\* is left pending
Diagram ==
    /\ pc = "start" /\ applyCommands(args) = "diagram"
    /\ \E ctorOk \in BOOLEAN :
          LET c == createDiagram(args, ctorOk)
          IN  /\ dgm' = c.val
              /\ console' = console \o c.log
              /\ events' = events \o <<Command("diagram")>> \o c.events
                              \o (IF c.val.made THEN <<Event("generate")>> ELSE <<>>)
              /\ pc' = IF c.val.made THEN "pending" ELSE "done"
    /\ UNCHANGED <<args, keys, files, ret>>

HelpByDefault ==
    /\ pc = "start" /\ applyCommands(args) = "default"
    /\ console' = console \o <<HelpText>>
    /\ events' = events \o <<Command("help")>>
    /\ pc' = "done"
    /\ UNCHANGED <<args, keys, files, ret, dgm>>

\* the promise of generate() resolves and the then-callback runs: output
\* writes the file, or prints its error when fs.writeFileSync throws
GenerateResolved ==
    /\ pc = "pending"
    /\ \/ /\ thenBranch(args) = "output"
          /\ \E writeOk \in BOOLEAN :
                LET path == parseOption(OutputKeys, args)
                IN  IF writeOk /\ path # undefined
                    THEN /\ files' = [q \in DOMAIN files \cup {path} |->
                                        IF q = path THEN SvgText ELSE files[q]]
                         /\ events' = events \o <<Event("resolved"), Event("write")>>
                         /\ console' = console
                    ELSE /\ files' = files
                         /\ events' = events \o <<Event("resolved"), Event("write failed")>>
                         /\ console' = console \o
                               <<NotGenerated(IF path = undefined THEN "TypeError" ELSE "Error")>>
       \/ /\ thenBranch(args) = "print"
          /\ console' = console \o <<SvgLine>>
          /\ events' = events \o <<Event("resolved"), Event("print")>>
          /\ files' = files
       \/ /\ thenBranch(args) = "none"
          /\ events' = events \o <<Event("resolved")>>
          /\ UNCHANGED <<files, console>>
    /\ pc' = "done"
    /\ UNCHANGED <<args, keys, ret, dgm>>

\* the promise of generate() rejects: the then-callback never runs and no
\* handler takes the rejection
GenerateRejected ==
    /\ pc = "pending"
    /\ events' = events \o <<Event("rejected")>>
    /\ pc' = "unhandled rejection"
    /\ UNCHANGED <<args, keys, files, ret, console, dgm>>

NextCmd == Help \/ Version \/ Diagram \/ HelpByDefault \/ GenerateResolved \/ GenerateRejected

SpecCmd == InitCmd /\ [][NextCmd]_vars

-----------------------------------------------------------------------------
(* Properties of the commands *)

Has(ks) == \E i \in DOMAIN args : args[i] \in ks

Happened(name) == \E i \in DOMAIN events : events[i] = Event(name)

Commands == {i \in DOMAIN events : events[i].ev = "command"}

\* C7: exactly one branch runs, chosen by membership with the precedence
\* help, version, diagram, help by default; help and version only print.
C7_DispatchPrecedence ==
    pc # "start" =>
        /\ Cardinality(Commands) = 1
        /\ events[1] = Command(IF Has({"-h", "--help"}) THEN "help"
                               ELSE IF Has({"-v", "--version"}) THEN "version"
                               ELSE IF Has({"-d", "--diagram"}) THEN "diagram"
                               ELSE "help")
        /\ events[1].name = "help" => (events = <<Command("help")>> /\ console = <<HelpText>>)
        /\ events[1].name = "version" =>
              (events = <<Command("version")>> /\ console = <<VersionText>>)

\* the version and the diagram flag come before the help flag: only help runs
C7_Witness ==
    /\ pc = "done"
    /\ \E i, j, k \in DOMAIN args :
          i < j /\ j < k /\ args[i] = "-d" /\ args[j] = "-v" /\ args[k] = "-h"
    /\ events = <<Command("help")>>
    /\ console = <<HelpText>>

DiagramSlotAbsent ==
    LastValue(DiagramKeys, args) = undefined \/ ~ Loads(LastValue(DiagramKeys, args))

\* C8: a diagram run whose diagram document is undefined ends at once: no
\* Diagram is constructed, generate() is not called, nothing is written,
\* no SVG is printed and no error escapes; nothing happens after the end.
C8_NoDiagramWithoutDocument ==
    [][ /\ (pc = "start" /\ applyCommands(args) = "diagram" /\ DiagramSlotAbsent) =>
            /\ pc' = "done"
            /\ dgm' = NoDiagram
            /\ events' = <<Command("diagram"), Load("diagram")>>
            /\ files' = files
            /\ \A i \in DOMAIN console' : console'[i].line = "file error"
        /\ pc = "done" => UNCHANGED vars ]_vars

\* the diagram file is malformed and both -o and -w are given
C8_Witness ==
    /\ pc = "done"
    /\ events = <<Command("diagram"), Load("diagram")>>
    /\ LastValue(DiagramKeys, args) # undefined
    /\ contentOf(LastValue(DiagramKeys, args)) = Malformed
    /\ Has({"-o"}) /\ Has({"-w"})
    /\ Len(console) = 1

\* C9: after generate() has resolved with both an output and a write option
\* in the argument vector, the SVG text has been printed.
C9_PrintedAlsoWithOutput ==
    (pc = "done" /\ Happened("resolved") /\ Has({"-o", "--output"}) /\ Has({"-w", "--write"})) =>
        \E i \in DOMAIN console : console[i] = SvgLine

\* position of the event e in the run, 0 when it has not happened
At(e) == IF \E i \in DOMAIN events : events[i] = e
         THEN Min({i \in DOMAIN events : events[i] = e}) ELSE 0

\* if e happened, d happened before it
After(e, d) == At(e) > 0 => (At(d) > 0 /\ At(d) < At(e))

OptionLoads == {Load("style"), Load("mjConfig"), Load("mjTypeset")}

\* C12: in a diagram run the diagram document is loaded first; the style,
\* mjConfig and mjTypeset documents are loaded after it and only when it is
\* present; the constructor runs after the four loads; generate() is called
\* after a constructor that did not throw; the file write or the print comes
\* after generate() has resolved.  (The presence of the diagram document is
\* read from the file system as long as the run has not written to it.)
C12_OrderOfSteps ==
    (pc # "start" /\ events[1] = Command("diagram")) =>
        /\ events[2] = Load("diagram")
        /\ \A l \in OptionLoads :
              /\ After(l, Load("diagram"))
              /\ (At(l) > 0 /\ ~ Happened("write")) => ~ DiagramSlotAbsent
        /\ \A l \in OptionLoads \cup {Load("diagram")} : After(Event("new Diagram"), l)
        /\ After(Event("generate"), Event("new Diagram"))
        /\ Happened("generate") => (~ Happened("threw") /\ dgm.made)
        /\ After(Event("resolved"), Event("generate"))
        /\ \A w \in {Event("write"), Event("write failed"), Event("print")} :
              After(w, Event("resolved"))
        /\ \A i, j \in DOMAIN events : events[i] = events[j] => i = j

\* a run that goes all the way: four loads, constructor, generate(), write
C12_Witness ==
    /\ pc = "done"
    /\ events = <<Command("diagram"), Load("diagram"), Load("style"), Load("mjConfig"),
                  Load("mjTypeset"), Event("new Diagram"), Event("generate"),
                  Event("resolved"), Event("write")>>
    /\ files[LastValue(OutputKeys, args)] = SvgText

====
